---- MODULE Spec2Model ----
(***************************************************************************)
(* The menu service of restaurant-management/restaurant.py: five Flask     *)
(* handlers over the MongoDB collection "menu".  A handler runs in a       *)
(* worker; every call on the collection (find_one, insert_one, update_one) *)
(* is one atomic step, and the handler's own code between two calls is     *)
(* part of the step of the call before it.  The handlers that read and     *)
(* then write therefore take two steps, and steps of different workers     *)
(* interleave.                                                             *)
(***************************************************************************)
EXTENDS Integers, Sequences, FiniteSets, TLC

\* Total number of requests the service accepts in one behaviour.
MaxReqs == 3

\* The workers of the HTTP layer that serve requests concurrently.
Workers == {1, 2}

(***************************************************************************)
(* JSON values.  k is the kind: "absent" is a key the object does not hold *)
(* (data.get returns None, 'key' in data is False), "null" is JSON null.   *)
(***************************************************************************)
Absent == [k |-> "absent", n |-> 0, s |-> ""]
Null == [k |-> "null", n |-> 0, s |-> ""]
Num(x) == [k |-> "num", n |-> x, s |-> ""]
Str(x) == [k |-> "str", n |-> 0, s |-> x]

\* Python truthiness of data.get(key): None, 0 and "" are falsy.
Truthy(v) == (v.k = "num" /\ v.n # 0) \/ (v.k = "str" /\ v.s # "")

\* 'key' in data
Has(v) == v.k # "absent"

\* Path segments accepted as restaurant_id; bson.ObjectId raises InvalidId on
\* any string that is not 24 hexadecimal digits.
ValidIds == {"64a000000000000000000001", "64a000000000000000000002"}
RestaurantIds == ValidIds \cup {"not-an-id"}
IsObjectId(rid) == rid \in ValidIds

ProductNames == {"Burger", "Fries"}

\* A request body: obj is FALSE for a JSON body that is not an object
\* (request.get_json() returns a list or None), and for requests without body.
Obj(name, price, detail) ==
    [obj |-> TRUE, product_name |-> name, price |-> price, detail |-> detail]
NonObject == [obj |-> FALSE, product_name |-> Absent, price |-> Absent, detail |-> Absent]

\* Bodies of POST: complete ones, and ones with a field missing, null, empty or 0.
ValidBodies == {Obj(Str(nm), Num(5), Str("Beef")) : nm \in ProductNames}
BrokenBodies ==
    {Obj(Absent, Num(5), Str("Beef")), Obj(Str("Burger"), Null, Str("Beef")),
     Obj(Str("Burger"), Num(0), Str("Beef")), Obj(Str("Burger"), Num(5), Str(""))}
AddBodies == ValidBodies \cup BrokenBodies \cup {NonObject}

\* Bodies of PUT: no field, the stored price, a new price, a new detail, both.
UpdateFields ==
    {<<Absent, Absent>>, <<Num(5), Absent>>, <<Num(6), Absent>>,
     <<Absent, Str("Crispy")>>, <<Num(6), Str("Crispy")>>}
UpdateBodies ==
    {Obj(Str(nm), f[1], f[2]) : nm \in ProductNames, f \in UpdateFields}
    \cup {Obj(Absent, Num(6), Absent), NonObject}

NoResp == [status |-> 0, json |-> FALSE, menu |-> <<>>, menus |-> <<>>]
NoReq == [op |-> "none", rid |-> "", name |-> "", body |-> NonObject]

\* jsonify({"msg": ...}), status
Json(status) == [status |-> status, json |-> TRUE, menu |-> <<>>, menus |-> <<>>]
\* An exception that leaves the view function: Flask answers with its own
\* "500 Internal Server Error" page, which is no JSON object.
Unhandled == [status |-> 500, json |-> FALSE, menu |-> <<>>, menus |-> <<>>]

VARIABLES
    menus,     \* the collection: documents in natural (insertion) order
    pc,        \* pc[w]: where worker w is in its handler
    req,       \* req[w]: the request w serves
    resp,      \* resp[w]: the response w has produced
    served,    \* number of requests accepted so far
    pure,      \* history: pure[r] until an UpdateItem or DeleteItem write on r
    adds,      \* history: the items AddItem was asked to store for r, while pure[r]
    inserted,  \* history: inserted[r][n] items named n stored by AddItem
    deleted    \* history: deleted[r][n] DeleteItem requests answered 200

vars == <<menus, pc, req, resp, served, pure, adds, inserted, deleted>>
hist == <<pure, adds, inserted, deleted>>

(***************************************************************************)
(* The collection operations the handlers use.                             *)
(***************************************************************************)
Min(S) == CHOOSE x \in S : \A y \in S : x <= y

\* find_one({"restaurant_id": rid}): the position of the first matching
\* document, 0 for None.
find_one(coll, rid) ==
    LET hits == {i \in 1..Len(coll) : coll[i].restaurant_id = rid}
    IN  IF hits = {} THEN 0 ELSE Min(hits)

\* insert_one(doc): the store assigns _id.
insert_one(coll, rid, items) ==
    Append(coll, [id |-> Len(coll) + 1, restaurant_id |-> rid, menu_items |-> items])

HasName(items, name) == \E i \in 1..Len(items) : items[i].product_name = name

\* next((item for item in menu_items if item['product_name'] == name), None)
FirstNamed(items, name) ==
    LET hits == {i \in 1..Len(items) : items[i].product_name = name}
    IN  IF hits = {} THEN 0 ELSE Min(hits)

\* new_menu_item
new_menu_item(data) ==
    [product_name |-> data.product_name, price |-> data.price, detail |-> data.detail]

PushFront(items, item) == <<item>> \o items
\* {"$push": {"menu_items": item}}
Push(items, item) == Append(items, item)

PullFirst(items, name) ==
    LET i == FirstNamed(items, name)
    IN  IF i = 0 THEN items
        ELSE SubSeq(items, 1, i - 1) \o SubSeq(items, i + 1, Len(items))
\* {"$pull": {"menu_items": {"product_name": name}}}
Pull(items, name) == SelectSeq(items, LAMBDA it : it.product_name # name)

SetFieldsAll(item, body) ==
    [item EXCEPT !.price = body.price, !.detail = body.detail]
\* {"$set": update_data}, update_data holding only the keys present in data
SetFields(item, body) ==
    [item EXCEPT !.price = IF Has(body.price) THEN body.price ELSE @,
                 !.detail = IF Has(body.detail) THEN body.detail ELSE @]

\* update_one({"restaurant_id": rid, "menu_items.product_name": name},
\*            {"$set": {"menu_items.$.price": .., "menu_items.$.detail": ..}})
\* The first document of rid holding the name; $ is its first such element.
SetTarget(coll, rid, name) ==
    LET hits == {i \in 1..Len(coll) :
                    coll[i].restaurant_id = rid /\ HasName(coll[i].menu_items, name)}
    IN  IF hits = {} THEN 0 ELSE Min(hits)

update_set(coll, rid, body) ==
    LET d == SetTarget(coll, rid, body.product_name)
    IN  IF d = 0 THEN coll
        ELSE LET i == FirstNamed(coll[d].menu_items, body.product_name)
             IN  [coll EXCEPT ![d].menu_items[i] = SetFields(@, body)]

update_push(coll, rid, item) ==
    LET d == find_one(coll, rid)
    IN  IF d = 0 THEN coll ELSE [coll EXCEPT ![d].menu_items = Push(@, item)]

update_pull(coll, rid, name) ==
    LET d == find_one(coll, rid)
    IN  IF d = 0 THEN coll ELSE [coll EXCEPT ![d].menu_items = Pull(@, name)]

\* result.modified_count
modified_count(before, after) == IF before = after THEN 0 ELSE 1

\* An empty {"$set": {}}: servers before MongoDB 5.0 reject it ("'$set' is
\* empty", a WriteError), later ones accept it as a write that changes nothing.
EmptySetOutcomes == {"error", "noop"}

Init ==
    /\ menus = <<>>
    /\ pc = [w \in Workers |-> "idle"]
    /\ req = [w \in Workers |-> NoReq]
    /\ resp = [w \in Workers |-> NoResp]
    /\ served = 0
    /\ pure = [r \in ValidIds |-> TRUE]
    /\ adds = [r \in ValidIds |-> <<>>]
    /\ inserted = [r \in ValidIds |-> [nm \in ProductNames |-> 0]]
    /\ deleted = [r \in ValidIds |-> [nm \in ProductNames |-> 0]]

\* Worker w takes request r and, having run to `at`, holds response `out`.
Accept(w, r, at, out) ==
    /\ pc[w] = "idle"
    /\ served < MaxReqs
    /\ served' = served + 1
    /\ req' = [req EXCEPT ![w] = r]
    /\ pc' = [pc EXCEPT ![w] = at]
    /\ resp' = [resp EXCEPT ![w] = out]

Finish(w, out) ==
    /\ pc' = [pc EXCEPT ![w] = "done"]
    /\ resp' = [resp EXCEPT ![w] = out]
    /\ UNCHANGED <<req, served>>

\* An UpdateItem or DeleteItem write on rid ends the record of pure additions.
Impure(rid) ==
    /\ pure' = [pure EXCEPT ![rid] = FALSE]
    /\ adds' = [adds EXCEPT ![rid] = <<>>]

Added(r) ==
    /\ adds' = [adds EXCEPT ![r.rid] =
                   IF pure[r.rid]
                   THEN Append(@, [product_name |-> r.body.product_name,
                                   price |-> r.body.price,
                                   detail |-> r.body.detail])
                   ELSE @]
    /\ inserted' = [inserted EXCEPT ![r.rid][r.body.product_name.s] = @ + 1]
    /\ UNCHANGED <<pure, deleted>>

(***************************************************************************)
(* POST /menu/<restaurant_id>                                              *)
(***************************************************************************)
\* add_menu up to and including find_one.
AddItemFind(w) ==
    \E rid \in RestaurantIds, data \in AddBodies :
        LET r == [op |-> "add", rid |-> rid, name |-> "", body |-> data]
        IN  /\ IF ~data.obj
               THEN Accept(w, r, "done", Unhandled)
               ELSE IF ~Truthy(data.product_name) \/ ~Truthy(data.price)
                          \/ ~Truthy(data.detail)
               THEN Accept(w, r, "done", Json(400))
               ELSE IF ~IsObjectId(rid)
               THEN Accept(w, r, "done", Json(500))
               ELSE IF find_one(menus, rid) # 0
               THEN Accept(w, r, "add_push", NoResp)
               ELSE Accept(w, r, "add_insert", NoResp)
            /\ UNCHANGED <<menus, hist>>

\* existing_menu was truthy: update_one with $push.
AddItemPush(w) ==
    /\ pc[w] = "add_push"
    /\ menus' = update_push(menus, req[w].rid, new_menu_item(req[w].body))
    /\ Finish(w, Json(200))
    /\ Added(req[w])

\* existing_menu was None: insert_one of a new document.
AddItemInsert(w) ==
    /\ pc[w] = "add_insert"
    /\ menus' = insert_one(menus, req[w].rid, <<new_menu_item(req[w].body)>>)
    /\ Finish(w, Json(201))
    /\ Added(req[w])

(***************************************************************************)
(* GET /menu/<restaurant_id>                                               *)
(***************************************************************************)
GetMenu(w) ==
    \E rid \in RestaurantIds :
        LET r == [op |-> "get", rid |-> rid, name |-> "", body |-> NonObject]
            d == find_one(menus, rid)
        IN  /\ IF ~IsObjectId(rid)
               THEN Accept(w, r, "done", Json(500))
               ELSE IF d # 0
               THEN Accept(w, r, "done", [Json(200) EXCEPT !.menu = menus[d].menu_items])
               ELSE Accept(w, r, "done", Json(404))
            /\ UNCHANGED <<menus, hist>>

(***************************************************************************)
(* PUT /menu/<restaurant_id>                                               *)
(***************************************************************************)
\* update_menu up to the search for existing_product.
UpdateItemFind(w) ==
    \E rid \in RestaurantIds, data \in UpdateBodies :
        LET r == [op |-> "update", rid |-> rid, name |-> "", body |-> data]
            d == find_one(menus, rid)
        IN  /\ IF ~IsObjectId(rid)
               THEN Accept(w, r, "done", Json(500))
               ELSE IF d = 0
               THEN Accept(w, r, "done", Json(404))
               ELSE IF ~data.obj
               THEN Accept(w, r, "done", Json(500))
               ELSE IF ~Truthy(data.product_name)
               THEN Accept(w, r, "done", Json(400))
               ELSE IF FirstNamed(menus[d].menu_items, data.product_name) = 0
               THEN Accept(w, r, "done", Json(404))
               ELSE Accept(w, r, "upd_set", NoResp)
            /\ UNCHANGED <<menus, hist>>

\* result.modified_count > 0
UpdateStatus(n) == IF n > 0 THEN 200 ELSE 400

\* update_one with $set and the answer from modified_count.
UpdateItemSet(w) ==
    /\ pc[w] = "upd_set"
    /\ IF ~Has(req[w].body.price) /\ ~Has(req[w].body.detail)
       THEN \E o \in EmptySetOutcomes :
               /\ menus' = menus
               /\ Finish(w, IF o = "error" THEN Json(500) ELSE Json(UpdateStatus(0)))
       ELSE /\ menus' = update_set(menus, req[w].rid, req[w].body)
            /\ Finish(w, Json(UpdateStatus(modified_count(menus, menus'))))
    /\ Impure(req[w].rid)
    /\ UNCHANGED <<inserted, deleted>>

(***************************************************************************)
(* DELETE /menu/<restaurant_id>/<product_name>                             *)
(***************************************************************************)
\* delete_menu_item up to the search for item_to_remove.
DeleteItemFind(w) ==
    \E rid \in RestaurantIds, nm \in ProductNames :
        LET r == [op |-> "delete", rid |-> rid, name |-> nm, body |-> NonObject]
            d == find_one(menus, rid)
        IN  /\ IF ~IsObjectId(rid)
               THEN Accept(w, r, "done", Json(500))
               ELSE IF d = 0
               THEN Accept(w, r, "done", Json(404))
               ELSE IF FirstNamed(menus[d].menu_items, Str(nm)) = 0
               THEN Accept(w, r, "done", Json(404))
               ELSE Accept(w, r, "del_pull", NoResp)
            /\ UNCHANGED <<menus, hist>>

DeleteStatusAlways(n) == 200
\* result.modified_count > 0
DeleteStatus(n) == IF n > 0 THEN 200 ELSE 400

\* update_one with $pull and the answer from modified_count.
DeleteItemPull(w) ==
    /\ pc[w] = "del_pull"
    /\ menus' = update_pull(menus, req[w].rid, Str(req[w].name))
    /\ Finish(w, Json(DeleteStatus(modified_count(menus, menus'))))
    /\ Impure(req[w].rid)
    /\ deleted' = [deleted EXCEPT ![req[w].rid][req[w].name] =
                      IF resp'[w].status = 200 THEN @ + 1 ELSE @]
    /\ UNCHANGED inserted

(***************************************************************************)
(* GET /menu                                                               *)
(***************************************************************************)
GetAllMenus(w) ==
    LET r == [op |-> "list", rid |-> "", name |-> "", body |-> NonObject]
    IN  /\ IF menus = <<>>
           THEN Accept(w, r, "done", Json(404))
           ELSE Accept(w, r, "done", [Json(200) EXCEPT !.menus = menus])
        /\ UNCHANGED <<menus, hist>>

\* The response leaves the worker, which is free for the next request.
Reply(w) ==
    /\ pc[w] = "done"
    /\ pc' = [pc EXCEPT ![w] = "idle"]
    /\ req' = [req EXCEPT ![w] = NoReq]
    /\ resp' = [resp EXCEPT ![w] = NoResp]
    /\ UNCHANGED <<menus, served, hist>>

Next ==
    \E w \in Workers :
        \/ AddItemFind(w)
        \/ AddItemPush(w)
        \/ AddItemInsert(w)
        \/ GetMenu(w)
        \/ UpdateItemFind(w)
        \/ UpdateItemSet(w)
        \/ DeleteItemFind(w)
        \/ DeleteItemPull(w)
        \/ GetAllMenus(w)
        \/ Reply(w)

\* Requests served concurrently.
Spec == Init /\ [][Next]_vars

\* No request is in flight.
Quiet == \A w \in Workers : pc[w] = "idle"

NextSeq ==
    \E w \in Workers :
        \/ Quiet /\ AddItemFind(w)
        \/ AddItemPush(w)
        \/ AddItemInsert(w)
        \/ Quiet /\ GetMenu(w)
        \/ Quiet /\ UpdateItemFind(w)
        \/ UpdateItemSet(w)
        \/ Quiet /\ DeleteItemFind(w)
        \/ DeleteItemPull(w)
        \/ Quiet /\ GetAllMenus(w)
        \/ Reply(w)

\* Requests issued one after another: each is accepted once the one before it
\* has been answered.
SpecSeq == Init /\ [][NextSeq]_vars

(***************************************************************************)
(* Properties                                                              *)
(***************************************************************************)
Done(w, op) == pc[w] = "done" /\ req[w].op = op

\* The positions <<d, i>> of the items named nm in the documents of rid.
Named(coll, rid, nm) ==
    UNION {{<<d, i>> : i \in {j \in 1..Len(coll[d].menu_items) :
                                 coll[d].menu_items[j].product_name = Str(nm)}} :
           d \in {c \in 1..Len(coll) : coll[c].restaurant_id = rid}}

\* C1: there is at most one Menu document per restaurant identifier, whatever
\* the interleaving of the requests.
AtMostOneMenu ==
    \A r \in ValidIds :
        Cardinality({d \in 1..Len(menus) : menus[d].restaurant_id = r}) <= 1

\* C2: of valid AddItem requests issued one after another for a restaurant
\* without Menu, the first is answered 201 and the later ones 200, and a
\* GetMenu after them is answered 200 with exactly the items asked for, in the
\* order they were added.
AddThenGet ==
    \A w \in Workers :
        /\ (Done(w, "add") /\ req[w].body \in ValidBodies /\ req[w].rid \in ValidIds
               /\ pure[req[w].rid])
           => resp[w].status = IF Len(adds[req[w].rid]) = 1 THEN 201 ELSE 200
        /\ (Done(w, "get") /\ req[w].rid \in ValidIds /\ pure[req[w].rid]
               /\ adds[req[w].rid] # <<>>)
           => /\ resp[w].status = 200
              /\ resp[w].menu = adds[req[w].rid]

AddThenGetWitness ==
    \E w \in Workers :
        /\ Done(w, "get")
        /\ resp[w].status = 200
        /\ pure[req[w].rid]
        /\ Len(resp[w].menu) = 2
        /\ resp[w].menu[1].product_name # resp[w].menu[2].product_name

\* What the $set step of worker w, answered 200, does to the store.
UpdateFrame(w) ==
    (pc[w] = "upd_set" /\ pc'[w] = "done" /\ resp'[w].status = 200)
    => \E d \in 1..Len(menus) :
         \E i \in 1..Len(menus[d].menu_items) :
            LET old == menus[d].menu_items[i]
                b == req[w].body
            IN  /\ menus[d].restaurant_id = req[w].rid
                /\ old.product_name = b.product_name
                /\ \A j \in 1..(i - 1) :
                      menus[d].menu_items[j].product_name # b.product_name
                /\ menus' = [menus EXCEPT ![d].menu_items[i] =
                       [product_name |-> old.product_name,
                        price |-> IF b.price.k = "absent" THEN old.price ELSE b.price,
                        detail |-> IF b.detail.k = "absent" THEN old.detail ELSE b.detail]]

\* C3: a successful UpdateItem overwrites the supplied fields, and only them,
\* of the first item with the product_name, and changes nothing else in the
\* store: not the item's name or position, not another item, not another Menu.
UpdateOnlySupplied == [][\A w \in Workers : UpdateFrame(w)]_vars

UpdateOnlySuppliedWitness ==
    \E w \in Workers :
        /\ Done(w, "update")
        /\ resp[w].status = 200
        /\ req[w].body.price = Num(6)
        /\ req[w].body.detail = Absent
        /\ \E d \in 1..Len(menus) :
              /\ Len(menus[d].menu_items) = 2
              /\ \E i \in 1..2 :
                    menus[d].menu_items[i] =
                        [product_name |-> req[w].body.product_name,
                         price |-> Num(6), detail |-> Str("Beef")]

\* What the two steps of a DeleteItem of worker w do to the store.
DeleteEffect(w) ==
    /\ (pc[w] = "idle" /\ pc'[w] # "idle" /\ req'[w].op = "delete"
           /\ req'[w].rid \in ValidIds)
       => /\ menus' = menus
          /\ IF Named(menus, req'[w].rid, req'[w].name) # {}
             THEN pc'[w] = "del_pull"
             ELSE pc'[w] = "done" /\ resp'[w].status = 404
    /\ (pc[w] = "del_pull" /\ pc'[w] = "done")
       => /\ resp'[w].status = 200
          /\ \E d \in 1..Len(menus) :
                /\ menus[d].restaurant_id = req[w].rid
                /\ HasName(menus[d].menu_items, Str(req[w].name))
                /\ menus' = [menus EXCEPT ![d].menu_items =
                       SelectSeq(@, LAMBDA it : it.product_name.s # req[w].name)]

\* C4: with requests served one after another, DeleteItem for a name the
\* Menu holds is answered 200 and removes all items of that name and nothing
\* else, the other items keeping their order; DeleteItem for a restaurant
\* without Menu or a name the Menu does not hold is answered 404 and leaves
\* the store as it is.
DeleteExactlyNamed == [][\A w \in Workers : DeleteEffect(w)]_vars

DeleteExactlyNamedWitness ==
    \E w \in Workers :
        /\ Done(w, "delete")
        /\ resp[w].status = 200
        /\ inserted[req[w].rid][req[w].name] > 0
        /\ Named(menus, req[w].rid, req[w].name) = {}
        /\ \E d \in 1..Len(menus) :
              /\ menus[d].restaurant_id = req[w].rid
              /\ menus[d].menu_items # <<>>

\* The $set of worker w meets its item and supplies no value that differs.
NoFieldChange(w) ==
    LET b == req[w].body
        d == SetTarget(menus, req[w].rid, b.product_name)
    IN  /\ d # 0
        /\ LET it == menus[d].menu_items[FirstNamed(menus[d].menu_items, b.product_name)]
           IN  /\ Has(b.price) => it.price = b.price
               /\ Has(b.detail) => it.detail = b.detail

\* C5: an UpdateItem write on an existing item that changes no field, because
\* the request supplies neither price nor detail or supplies the stored
\* values, is answered 400 and leaves the store as it is.
NoChangeIs400 ==
    [][\A w \in Workers :
          (pc[w] = "upd_set" /\ pc'[w] = "done" /\ NoFieldChange(w))
          => (resp'[w].status = 400 /\ menus' = menus)]_vars

\* C6: every Menu document in the store has at least one item.
NoEmptyMenu == \A d \in 1..Len(menus) : menus[d].menu_items # <<>>

\* C7: no Menu holds two items with the same product_name.
UniqueNames ==
    \A d \in 1..Len(menus) :
        \A i, j \in 1..Len(menus[d].menu_items) :
            i # j => menus[d].menu_items[i].product_name # menus[d].menu_items[j].product_name

\* C8: every request ends in a JSON response with a "msg" field and a status
\* among 200, 201, 400, 404 and 500; no fault leaves the handler.
AllResponsesJson ==
    \A w \in Workers :
        pc[w] = "done" => (resp[w].json /\ resp[w].status \in {200, 201, 400, 404, 500})

\* A field that is missing, null or empty.
Blank == {Absent, Null, Str("")}

\* C9: AddItem with a valid restaurantId and an object body is answered 400
\* exactly when product_name, price or detail is missing, null or empty; any
\* other body, a price of 0 included, is answered 200 or 201.
AddRejectedIffBlank ==
    \A w \in Workers :
        (Done(w, "add") /\ req[w].body.obj /\ req[w].rid \in ValidIds)
        => LET b == req[w].body
               blank == b.product_name \in Blank \/ b.price \in Blank \/ b.detail \in Blank
           IN  /\ resp[w].status = 400 <=> blank
               /\ ~blank => resp[w].status \in {200, 201}

\* The answer of a DeleteItem of worker w against what its step removed.
DeleteOwnWrite(w) ==
    (pc[w] # "done" /\ pc'[w] = "done" /\ req'[w].op = "delete" /\ req'[w].rid \in ValidIds)
    => IF resp'[w].status = 200
       THEN /\ pc[w] = "del_pull"
            /\ Cardinality(Named(menus', req[w].rid, req[w].name))
                  < Cardinality(Named(menus, req[w].rid, req[w].name))
       ELSE /\ resp'[w].status \in {400, 404}
            /\ menus' = menus

\* C10: DeleteItem answers 200 only when its own write removed an item: each
\* 200 goes with a write that took items of that name out of the store, so a
\* name is deleted with 200 no more often than it was added, and a DeleteItem
\* that removed nothing is answered 404 or 400.
DeleteOnce ==
    /\ [](\A r \in ValidIds : \A nm \in ProductNames : deleted[r][nm] <= inserted[r][nm])
    /\ [][\A w \in Workers : DeleteOwnWrite(w)]_vars

DeleteOnceWitness ==
    \E v, w \in Workers :
        /\ v # w
        /\ Done(v, "delete") /\ Done(w, "delete")
        /\ req[v].rid = req[w].rid /\ req[v].name = req[w].name
        /\ resp[v].status = 200
        /\ resp[w].status = 400
        /\ inserted[req[w].rid][req[w].name] = 1

====
